---- MODULE Spec2Model ----
(***************************************************************************)
(* Recipe Explorer backend (src/recipe_backend/src/api/main.py): the       *)
(* in-memory store _db, the counter _id_counter, the seeding step and the  *)
(* six recipe handlers plus the health endpoint.                           *)
(***************************************************************************)
EXTENDS Integers, Sequences, FiniteSets, TLC

VARIABLES
    db,          \* _db
    id_counter,  \* _id_counter
    clock,       \* what _now() reads
    issued,      \* the values _next_id has returned, in order
    deleted,     \* the ids delete_recipe has removed
    last,        \* the last request and its response
    pc,          \* concurrent requests: where each worker thread is
    frame,       \* concurrent requests: each worker thread's locals
    writes       \* concurrent requests: the insertions into _db, in order

vars == <<db, id_counter, clock, issued, deleted, last, pc, frame, writes>>

\* Bounds of the model: the highest id the counter may reach and the highest
\* reading of the clock.
MaxId == 2
MaxTime == 1

\* Field constraints of RecipeBase / RecipeUpdate.
TitleMinLen == 1
TitleMaxLen == 200
DescriptionMaxLen == 2000
MinMinutes == 0
MinServings == 1
MinRecipeId == 1

----------------------------------------------------------------------------
\* Optional[T]: None is the empty sequence, a value v is <<v>>.
None == <<>>
Some(v) == <<v>>
IsNone(o) == Len(o) = 0

\* The strings the requests of the model use, with their Python len().
StrLen(s) ==
    CASE s = "" -> 0
      [] s = "X" -> 1
      [] s = "Classic Pancakes" -> 16
      [] s = "Fluffy pancakes perfect for breakfast." -> 38

\* pydantic's HttpUrl: which strings parse, and the normalised URL they parse to
\* (an empty path becomes "/"); a parsed URL validates to itself.
IsHttpUrl(s) == s \in {"http://e.com", "http://e.com/", "http://e.com/p.png"}
UrlParse(s) == IF s = "http://e.com" THEN "http://e.com/" ELSE s

----------------------------------------------------------------------------
\* Field validators (pydantic Field(...) constraints), on Optional values.
TitleOk(o) == Len(o) = 1 /\ StrLen(o[1]) >= TitleMinLen /\ StrLen(o[1]) <= TitleMaxLen
OptTitleOk(o) == IsNone(o) \/ TitleOk(o)
DescriptionOk(o) == IsNone(o) \/ StrLen(o[1]) <= DescriptionMaxLen
ListOk(o) == Len(o) = 1
OptListOk(o) == TRUE
UrlOk(o) == IsNone(o) \/ IsHttpUrl(o[1])
MinutesOk(o) == IsNone(o) \/ o[1] >= MinMinutes
ServingsOk(o) == IsNone(o) \/ o[1] >= MinServings

Has(b, f) == f \in DOMAIN b
Field(b, f, default) == IF Has(b, f) THEN b[f] ELSE default
UrlField(o) == IF IsNone(o) THEN None ELSE Some(UrlParse(o[1]))

\* RecipeBase / RecipeCreate: validation of a JSON object b (a function from
\* the keys present to Optional values; JSON null is None).
RecipeCreateValid(b) ==
    /\ Has(b, "title") /\ TitleOk(b["title"])
    /\ DescriptionOk(Field(b, "description", None))
    /\ ListOk(Field(b, "ingredients", Some(<<>>)))
    /\ ListOk(Field(b, "steps", Some(<<>>)))
    /\ UrlOk(Field(b, "image_url", None))
    /\ MinutesOk(Field(b, "prep_time_minutes", None))
    /\ MinutesOk(Field(b, "cook_time_minutes", None))
    /\ ServingsOk(Field(b, "servings", None))

\* The parsed RecipeCreate: absent fields take their declared defaults.
RecipeCreate(b) ==
    [title |-> b["title"][1],
     description |-> Field(b, "description", None),
     ingredients |-> Field(b, "ingredients", Some(<<>>))[1],
     steps |-> Field(b, "steps", Some(<<>>))[1],
     image_url |-> UrlField(Field(b, "image_url", None)),
     prep_time_minutes |-> Field(b, "prep_time_minutes", None),
     cook_time_minutes |-> Field(b, "cook_time_minutes", None),
     servings |-> Field(b, "servings", None)]

\* RecipeUpdate: every field Optional, so null passes for each of them.
RecipeUpdateValid(b) ==
    /\ OptTitleOk(Field(b, "title", None))
    /\ DescriptionOk(Field(b, "description", None))
    /\ OptListOk(Field(b, "ingredients", None))
    /\ OptListOk(Field(b, "steps", None))
    /\ UrlOk(Field(b, "image_url", None))
    /\ MinutesOk(Field(b, "prep_time_minutes", None))
    /\ MinutesOk(Field(b, "cook_time_minutes", None))
    /\ ServingsOk(Field(b, "servings", None))

\* payload.model_dump(exclude_unset=True) of the parsed RecipeUpdate: the keys
\* that were explicitly set, with their validated values.
RecipeUpdateDumpSet(b) ==
    [f \in DOMAIN b |-> IF f = "image_url" THEN UrlField(b[f]) ELSE b[f]]

\* model_dump() of a RecipeCreate / of a stored Recipe: the keyword arguments
\* handed to Recipe(...), every value as an Optional.
InputDump(p) ==
    [title |-> Some(p.title),
     description |-> p.description,
     ingredients |-> Some(p.ingredients),
     steps |-> Some(p.steps),
     image_url |-> p.image_url,
     prep_time_minutes |-> p.prep_time_minutes,
     cook_time_minutes |-> p.cook_time_minutes,
     servings |-> p.servings]
RecipeDump(r) ==
    InputDump(r) @@ [id |-> r.id, created_at |-> r.created_at, updated_at |-> r.updated_at]

\* Recipe(**data): the constructor validates the RecipeBase constraints again
\* and raises pydantic's ValidationError when one fails.
RecipeValid(data) ==
    /\ TitleOk(data.title)
    /\ DescriptionOk(data.description)
    /\ ListOk(data.ingredients)
    /\ ListOk(data.steps)
    /\ UrlOk(data.image_url)
    /\ MinutesOk(data.prep_time_minutes)
    /\ MinutesOk(data.cook_time_minutes)
    /\ ServingsOk(data.servings)
Recipe(data) ==
    [id |-> data.id,
     title |-> data.title[1],
     description |-> data.description,
     ingredients |-> data.ingredients[1],
     steps |-> data.steps[1],
     image_url |-> UrlField(data.image_url),
     prep_time_minutes |-> data.prep_time_minutes,
     cook_time_minutes |-> data.cook_time_minutes,
     servings |-> data.servings,
     created_at |-> data.created_at,
     updated_at |-> data.updated_at]

----------------------------------------------------------------------------
\* _db: a Python dict, kept as the sequence of its values in insertion order;
\* the key of a value is its id.
DictHas(d, k) == \E i \in 1..Len(d) : d[i].id = k
DictGet(d, k) == d[CHOOSE i \in 1..Len(d) : d[i].id = k]
DictSet(d, k, v) ==
    IF DictHas(d, k)
    THEN [i \in 1..Len(d) |-> IF d[i].id = k THEN v ELSE d[i]]
    ELSE Append(d, v)
\* (faulty variant: the oldest entry is removed, whatever the key)
DictDelFirst(d, k) == IF d = <<>> THEN d ELSE Tail(d)
DictDel(d, k) == SelectSeq(d, LAMBDA r : r.id # k)
Keys(d) == {d[i].id : i \in 1..Len(d)}

\* _next_id: the counter after the call, and the value returned.
\* (faulty variant: the counter is not advanced)
NextIdCounterStuck(c) == c
NextIdCounter(c) == c + 1
\* (faulty variant: the value before the increment is returned)
NextIdReturnOld(c) == c
NextIdReturn(c) == NextIdCounter(c)

\* The sample recipe of _ensure_seed.
SampleIngredients ==
    <<"1 1/2 cups all-purpose flour", "3 1/2 tsp baking powder", "1 tsp salt",
      "1 tbsp white sugar", "1 1/4 cups milk", "1 egg", "3 tbsp butter, melted">>
SampleSteps ==
    <<"In a large bowl, sift together the flour, baking powder, salt and sugar.",
      "Make a well in the center and pour in the milk, egg and melted butter; mix until smooth.",
      "Heat a lightly oiled griddle over medium high heat.",
      "Pour or scoop the batter onto the griddle, using approximately 1/4 cup for each pancake.",
      "Brown on both sides and serve hot.">>
SamplePrep == 10
SampleCook == 15
SampleServings == 4
Sample(rid, created, updated) ==
    Recipe([id |-> rid,
            title |-> Some("Classic Pancakes"),
            description |-> Some("Fluffy pancakes perfect for breakfast."),
            ingredients |-> Some(SampleIngredients),
            steps |-> Some(SampleSteps),
            image_url |-> None,
            prep_time_minutes |-> Some(SamplePrep),
            cook_time_minutes |-> Some(SampleCook),
            servings |-> Some(SampleServings),
            created_at |-> created,
            updated_at |-> updated])

\* _ensure_seed on store s = [db, ctr, issued, clock]; d is the time that passes
\* between its two calls of _now().
\* (faulty variant: no early return on a non-empty store)
SeedAlways(d) == TRUE
SeedNeeded(d) == Len(d) = 0
EnsureSeed(s, d) ==
    IF ~SeedNeeded(s.db)
    THEN s
    ELSE LET rid == NextIdReturn(s.ctr)
             sample == Sample(rid, s.clock, s.clock + d)
         IN  [db |-> DictSet(s.db, sample.id, sample),
              ctr |-> NextIdCounter(s.ctr),
              issued |-> Append(s.issued, rid),
              clock |-> s.clock + d]
Store == [db |-> db, ctr |-> id_counter, issued |-> issued, clock |-> clock]
\* The time that may pass inside a handler: between the two calls of _now() of a
\* seeding step, none or one unit (a handler that does not seed reads the clock
\* once).
Delays == IF SeedNeeded(db) THEN {0, 1} ELSE {0}

----------------------------------------------------------------------------
\* The request bodies the model sends (JSON objects).
Empty == <<>>
CreateBodies ==
    << ("title" :> Some("X")) @@ ("image_url" :> Some("http://e.com"))
           @@ ("servings" :> Some(6)),
       ("title" :> Some("X")) @@ ("servings" :> Some(0)),
       "title" :> Some("") >>
PatchBodies ==
    << Empty,
       "servings" :> Some(2),
       "description" :> None,
       "title" :> None,
       "ingredients" :> None,
       "servings" :> Some(0) >>
RecipeIds == 0..MaxId

\* What the caller sees: the operation, its path id (0 when it has none), the
\* HTTP status and the recipes in the response body.
Response(op, rid, status, body) == [op |-> op, rid |-> rid, status |-> status, body |-> body]

\* The globals after a handler that got as far as store s and leaves newdb (the
\* handlers of the sequential specification run on no worker thread).
Leave(s, newdb) ==
    /\ UNCHANGED <<pc, frame, writes>>
    /\ s.ctr <= MaxId
    /\ s.clock <= MaxTime
    /\ db' = newdb
    /\ id_counter' = s.ctr
    /\ issued' = s.issued
    /\ clock' = s.clock

\* A request the framework rejects before the handler runs (422).
\* (faulty variant: the body is validated after the seeding step)
RejectAfterSeed(op, rid) ==
    /\ last' = Response(op, rid, 422, <<>>)
    /\ Leave(EnsureSeed(Store, 0), EnsureSeed(Store, 0).db)
    /\ UNCHANGED deleted
Reject(op, rid) ==
    /\ last' = Response(op, rid, 422, <<>>)
    /\ UNCHANGED <<db, id_counter, clock, issued, deleted, pc, frame, writes>>

\* The worker threads of the thread pool that runs the (synchronous) handlers.
Threads == {1, 2}
IdleFrame == [op |-> "none", caller |-> "none", tmp |-> 0, rid |-> 0]

Init ==
    /\ db = <<>>
    /\ id_counter = 0
    /\ clock = 0
    /\ issued = <<>>
    /\ deleted = {}
    /\ last = Response("start", 0, 200, <<>>)
    /\ pc = [t \in Threads |-> "idle"]
    /\ frame = [t \in Threads |-> IdleFrame]
    /\ writes = <<>>

\* Time passes between requests.
Tick ==
    /\ clock < MaxTime
    /\ clock' = clock + 1
    /\ last' = Response("tick", 0, 200, <<>>)
    /\ UNCHANGED <<db, id_counter, issued, deleted, pc, frame, writes>>

health_check ==
    /\ last' = Response("health", 0, 200, <<>>)
    /\ UNCHANGED <<db, id_counter, clock, issued, deleted, pc, frame, writes>>

list_recipes ==
    \E d \in Delays :
        LET s == EnsureSeed(Store, d) IN
        /\ Leave(s, s.db)
        /\ last' = Response("list", 0, 200, s.db)
        /\ UNCHANGED deleted

get_recipe(recipe_id) ==
    IF recipe_id < MinRecipeId THEN Reject("get", recipe_id)
    ELSE \E d \in Delays :
        LET s == EnsureSeed(Store, d) IN
        /\ Leave(s, s.db)
        /\ last' = IF ~DictHas(s.db, recipe_id)
                   THEN Response("get", recipe_id, 404, <<>>)
                   ELSE Response("get", recipe_id, 200, <<DictGet(s.db, recipe_id)>>)
        /\ UNCHANGED deleted

\* The record create_recipe builds.
CreateData(rid, now, payload) ==
    InputDump(payload) @@ [id |-> rid, created_at |-> now, updated_at |-> now]

create_recipe(b) ==
    IF ~RecipeCreateValid(b) THEN Reject("create", 0)
    ELSE \E d \in Delays :
        LET s == EnsureSeed(Store, d)
            rid == NextIdReturn(s.ctr)
            t == [s EXCEPT !.ctr = NextIdCounter(s.ctr), !.issued = Append(s.issued, rid)]
            data == CreateData(rid, t.clock, RecipeCreate(b))
        IN  /\ UNCHANGED deleted
            /\ IF RecipeValid(data)
               THEN /\ Leave(t, DictSet(t.db, rid, Recipe(data)))
                    /\ last' = Response("create", 0, 201, <<Recipe(data)>>)
               ELSE /\ Leave(t, t.db)
                    /\ last' = Response("create", 0, 500, <<>>)

\* The record update_recipe builds.
\* (faulty variant: an absent description keeps the stored one)
ReplaceDataMerging(recipe_id, existing, now, payload) ==
    InputDump([payload EXCEPT !.description =
                  IF IsNone(payload.description) THEN existing.description ELSE @])
        @@ [id |-> recipe_id, created_at |-> existing.created_at, updated_at |-> now]
ReplaceData(recipe_id, existing, now, payload) ==
    InputDump(payload)
        @@ [id |-> recipe_id, created_at |-> existing.created_at, updated_at |-> now]

update_recipe(recipe_id, b) ==
    IF recipe_id < MinRecipeId \/ ~RecipeCreateValid(b) THEN Reject("update", recipe_id)
    ELSE \E d \in Delays :
        LET s == EnsureSeed(Store, d) IN
        /\ UNCHANGED deleted
        /\ IF ~DictHas(s.db, recipe_id)
           THEN /\ Leave(s, s.db)
                /\ last' = Response("update", recipe_id, 404, <<>>)
           ELSE LET data == ReplaceData(recipe_id, DictGet(s.db, recipe_id), s.clock,
                                        RecipeCreate(b))
                IN  IF RecipeValid(data)
                    THEN /\ Leave(s, DictSet(s.db, recipe_id, Recipe(data)))
                         /\ last' = Response("update", recipe_id, 200, <<Recipe(data)>>)
                    ELSE /\ Leave(s, s.db)
                         /\ last' = Response("update", recipe_id, 500, <<>>)

\* The dict patch_recipe builds: the stored record's dump, overwritten by the
\* keys the payload set, then updated_at.
PatchMerge(existing, set) ==
    [f \in DOMAIN RecipeDump(existing) |->
        IF f \in DOMAIN set THEN set[f] ELSE RecipeDump(existing)[f]]
\* (faulty variant: created_at is refreshed too)
PatchDataTouching(existing, now, set) ==
    [PatchMerge(existing, set) EXCEPT !.updated_at = now, !.created_at = now]
PatchData(existing, now, set) ==
    [PatchMerge(existing, set) EXCEPT !.updated_at = now]

patch_recipe(recipe_id, b) ==
    IF recipe_id < MinRecipeId \/ ~RecipeUpdateValid(b) THEN Reject("patch", recipe_id)
    ELSE \E d \in Delays :
        LET s == EnsureSeed(Store, d) IN
        /\ UNCHANGED deleted
        /\ IF ~DictHas(s.db, recipe_id)
           THEN /\ Leave(s, s.db)
                /\ last' = Response("patch", recipe_id, 404, <<>>)
           ELSE LET data == PatchData(DictGet(s.db, recipe_id), s.clock,
                                      RecipeUpdateDumpSet(b))
                IN  IF RecipeValid(data)
                    THEN /\ Leave(s, DictSet(s.db, recipe_id, Recipe(data)))
                         /\ last' = Response("patch", recipe_id, 200, <<Recipe(data)>>)
                    ELSE /\ Leave(s, s.db)
                         /\ last' = Response("patch", recipe_id, 500, <<>>)

delete_recipe(recipe_id) ==
    IF recipe_id < MinRecipeId THEN Reject("delete", recipe_id)
    ELSE \E d \in Delays :
        LET s == EnsureSeed(Store, d) IN
        IF ~DictHas(s.db, recipe_id)
        THEN /\ Leave(s, s.db)
             /\ last' = Response("delete", recipe_id, 404, <<>>)
             /\ UNCHANGED deleted
        ELSE /\ Leave(s, DictDel(s.db, recipe_id))
             /\ last' = Response("delete", recipe_id, 200, <<>>)
             /\ deleted' = deleted \cup {recipe_id}

Next ==
    \/ Tick
    \/ health_check
    \/ list_recipes
    \/ \E rid \in RecipeIds : get_recipe(rid)
    \/ \E i \in DOMAIN CreateBodies : create_recipe(CreateBodies[i])
    \/ \E rid \in RecipeIds, i \in DOMAIN CreateBodies : update_recipe(rid, CreateBodies[i])
    \/ \E rid \in RecipeIds, i \in DOMAIN PatchBodies : patch_recipe(rid, PatchBodies[i])
    \/ \E rid \in RecipeIds : delete_recipe(rid)

Spec == Init /\ [][Next]_vars

----------------------------------------------------------------------------
\* Requests served concurrently. The handlers are plain functions on the shared
\* globals and take no lock, so the steps of two of them interleave: the
\* emptiness test and the insertion of _ensure_seed, and the read, the write and
\* the second read of _next_id (_id_counter += 1; return _id_counter).
Goto(t, label, f) ==
    /\ pc' = [pc EXCEPT ![t] = label]
    /\ frame' = [frame EXCEPT ![t] = f]

\* A thread takes a request: GET /recipes or POST /recipes with a valid body.
Begin(t, op) ==
    /\ pc[t] = "idle"
    /\ Goto(t, "seed_check", [IdleFrame EXCEPT !.op = op])
    /\ UNCHANGED <<db, id_counter, clock, issued, deleted, last, writes>>

\* _ensure_seed: if _db: return
SeedCheck(t) ==
    /\ pc[t] = "seed_check"
    /\ IF SeedNeeded(db)
       THEN Goto(t, "next_id_load", [frame[t] EXCEPT !.caller = "seed"])
       ELSE IF frame[t].op = "create"
            THEN Goto(t, "next_id_load", [frame[t] EXCEPT !.caller = "create"])
            ELSE Goto(t, "idle", IdleFrame)
    /\ UNCHANGED <<db, id_counter, clock, issued, deleted, last, writes>>

\* _next_id: the read of _id_counter in _id_counter += 1
NextIdLoad(t) ==
    /\ pc[t] = "next_id_load"
    /\ Goto(t, "next_id_store", [frame[t] EXCEPT !.tmp = id_counter])
    /\ UNCHANGED <<db, id_counter, clock, issued, deleted, last, writes>>

\* _next_id: the write of _id_counter += 1
NextIdStore(t) ==
    /\ pc[t] = "next_id_store"
    /\ NextIdCounter(frame[t].tmp) <= MaxId
    /\ id_counter' = NextIdCounter(frame[t].tmp)
    /\ Goto(t, "next_id_return", frame[t])
    /\ UNCHANGED <<db, clock, issued, deleted, last, writes>>

\* _next_id: return _id_counter
NextIdRet(t) ==
    /\ pc[t] = "next_id_return"
    /\ issued' = Append(issued, id_counter)
    /\ Goto(t, IF frame[t].caller = "seed" THEN "seed_insert" ELSE "create_insert",
            [frame[t] EXCEPT !.rid = id_counter])
    /\ UNCHANGED <<db, id_counter, clock, deleted, last, writes>>

\* _ensure_seed: _db[sample.id] = sample
SeedInsert(t) ==
    /\ pc[t] = "seed_insert"
    /\ LET sample == Sample(frame[t].rid, clock, clock) IN
       /\ db' = DictSet(db, sample.id, sample)
       /\ writes' = Append(writes, [by |-> "seed", id |-> sample.id])
    /\ IF frame[t].op = "create"
       THEN Goto(t, "next_id_load", [frame[t] EXCEPT !.caller = "create"])
       ELSE Goto(t, "idle", IdleFrame)
    /\ UNCHANGED <<id_counter, clock, issued, deleted, last>>

\* create_recipe: _db[rid] = recipe
CreateInsert(t) ==
    /\ pc[t] = "create_insert"
    /\ LET rid == frame[t].rid
           data == CreateData(rid, clock, RecipeCreate(CreateBodies[1]))
       IN  /\ db' = DictSet(db, rid, Recipe(data))
           /\ writes' = Append(writes, [by |-> "create", id |-> rid])
    /\ Goto(t, "idle", IdleFrame)
    /\ UNCHANGED <<id_counter, clock, issued, deleted, last>>

NextConc ==
    \/ \E t \in Threads, op \in {"list", "create"} : Begin(t, op)
    \/ \E t \in Threads : SeedCheck(t)
    \/ \E t \in Threads : NextIdLoad(t)
    \/ \E t \in Threads : NextIdStore(t)
    \/ \E t \in Threads : NextIdRet(t)
    \/ \E t \in Threads : SeedInsert(t)
    \/ \E t \in Threads : CreateInsert(t)

SpecConc == Init /\ [][NextConc]_vars

----------------------------------------------------------------------------
\* Vocabulary of the properties.
RecipeOps == {"list", "get", "create", "update", "patch", "delete"}
InputFields ==
    {"title", "description", "ingredients", "steps", "image_url",
     "prep_time_minutes", "cook_time_minutes", "servings"}
Range(q) == {q[i] : i \in 1..Len(q)}
\* The validated value of field f that payload b gives explicitly.
GivenValue(b, f) == IF f = "image_url" THEN UrlField(b[f]) ELSE b[f]
\* The step just taken ran a recipe handler (the framework did not reject it).
HandlerRan == last'.op \in RecipeOps /\ last'.status # 422
IsClassicPancakes(r) ==
    /\ r.title = "Classic Pancakes"
    /\ r.prep_time_minutes = <<10>>
    /\ r.cook_time_minutes = <<15>>
    /\ r.servings = <<4>>
    /\ r.image_url = <<>>
\* Every record of d other than the one with id k is in e, unchanged and in place.
OthersUnchanged(d, e, k) ==
    /\ Len(e) = Len(d)
    /\ \A i \in 1..Len(d) : d[i].id # k => e[i] = d[i]

\* C1: every id issued, by create_recipe or by seeding, is greater than every id
\* issued before it and the first is 1; the ids of the live recipes are pairwise
\* distinct, and a deleted id is neither live nor issued a second time.
IssuedIdsIncrease ==
    /\ issued # <<>> => issued[1] = 1
    /\ \A i, j \in 1..Len(issued) : i < j => issued[i] < issued[j]
    /\ \A i, j \in 1..Len(db) : i # j => db[i].id # db[j].id
    /\ Keys(db) \subseteq Range(issued)
    /\ deleted \subseteq Range(issued)
    /\ deleted \cap Keys(db) = {}
IssuedIdsIncreaseWitness ==
    /\ Len(issued) >= 2
    /\ deleted # {}
    /\ \E i \in 1..Len(db) : \A k \in deleted : db[i].id > k

\* C2: a patch of an id in the store with a payload RecipeUpdate accepts stores a
\* record whose every field present in the payload has the payload's value and
\* whose every other field, id and created_at included, has its prior value,
\* updated_at excepted; no other record changes.
PatchOverwritesExactlyPresent ==
    [][last'.op = "patch" => \A i \in DOMAIN PatchBodies :
        LET b == PatchBodies[i]
            rid == last'.rid
        IN
        (/\ rid >= 1
         /\ DictHas(db, rid)
         /\ RecipeUpdateValid(b)
         /\ patch_recipe(rid, b))
        => /\ DictHas(db', rid)
           /\ LET old == RecipeDump(DictGet(db, rid))
                  new == RecipeDump(DictGet(db', rid))
              IN  /\ \A f \in InputFields :
                        new[f] = IF f \in DOMAIN b THEN GivenValue(b, f) ELSE old[f]
                  /\ new.id = old.id
                  /\ new.created_at = old.created_at
           /\ OthersUnchanged(db, db', rid)]_vars

\* C3: every handler ends in its success result, in 404 or in 422.
HandlersTotal == last.status \in {200, 201, 404, 422}

\* C4 as stated: a request that fails leaves the store as it was.
FailureLeavesStoreUnchanged ==
    [][last'.status \in {404, 422, 500} => db' = db]_vars
\* C4: a request the framework rejects (422) leaves the store and the counter as
\* they were; a handler that fails (404, or an error raised in it) leaves a
\* non-empty store as it was, and leaves a store that was empty at its start
\* holding the one record its seeding step inserted.
FailureLeavesStoreSeeded ==
    [][last'.status \in {404, 422, 500} =>
        /\ last'.status = 422 => db' = db /\ id_counter' = id_counter
        /\ db # <<>> => db' = db /\ id_counter' = id_counter
        /\ (db = <<>> /\ last'.status # 422) =>
              /\ Len(db') = 1
              /\ IsClassicPancakes(db'[1])
              /\ db'[1].id \notin Range(issued)]_vars
FailureLeavesStoreWitness ==
    /\ last.status \in {404, 422}
    /\ last.op \in {"create", "update", "patch", "delete"}
    /\ Len(db) = 2

\* C5: once delete_recipe(id) has succeeded, id is not in the store again, and
\* every later get, replace, patch or delete of it that reaches its handler
\* answers 404.
DeletedStaysGone ==
    /\ [](deleted \cap Keys(db) = {})
    /\ [][\A rid \in deleted :
            (HandlerRan /\ last'.op \in {"get", "update", "patch", "delete"}
                /\ last'.rid = rid)
            => last'.status = 404]_vars
DeletedStaysGoneWitness ==
    /\ last.op = "get"
    /\ last.status = 404
    /\ last.rid \in deleted
    /\ db # <<>>
    /\ \A i \in 1..Len(db) : db[i].id > last.rid

\* C6: a handler that starts on an empty store seeds it with one Classic Pancakes
\* record and takes exactly one id for it, greater than every id issued before
\* (so list then answers that one record); a handler that starts on a non-empty
\* store seeds nothing and takes no id for a seed.
SeedExactlyWhenEmpty ==
    [][HandlerRan =>
        LET own == IF last'.op = "create" THEN 1 ELSE 0
            n == Len(issued)
        IN  /\ db = <<>> =>
                /\ id_counter' = id_counter + 1 + own
                /\ Len(issued') = n + 1 + own
                /\ \A k \in Range(issued) : issued'[n + 1] > k
                /\ last'.op \in {"list", "get"} =>
                      /\ Len(db') = 1
                      /\ IsClassicPancakes(db'[1])
                      /\ db'[1].id = issued'[n + 1]
                /\ last'.op = "list" => last'.body = db'
                /\ last'.op = "create" =>
                      /\ Len(db') = 2
                      /\ IsClassicPancakes(db'[1])
                      /\ db'[1].id = issued'[n + 1]
                /\ Len(db') <= 1 + own
            /\ db # <<>> =>
                /\ id_counter' = id_counter + own
                /\ Len(issued') = n + own
                /\ Len(db') <= Len(db) + own
                /\ \A i \in 1..Len(db') :
                      IsClassicPancakes(db'[i]) =>
                          \E j \in 1..Len(db) : db[j].id = db'[i].id]_vars
SeedExactlyWhenEmptyWitness ==
    /\ last.op = "list"
    /\ deleted # {}
    /\ Len(db) = 1
    /\ IsClassicPancakes(db[1])
    /\ \A k \in deleted : db[1].id > k

\* The value the parsed payload b carries for input field f: the value given, or
\* the field's declared default.
PayloadValue(b, f) ==
    IF f \in DOMAIN b
    THEN GivenValue(b, f)
    ELSE (IF f \in {"ingredients", "steps"} THEN <<(<<>>)>> ELSE <<>>)
\* r is the record a replace of rid with payload b stores at time now.
IsReplacement(r, rid, b, created, now) ==
    /\ r.id = rid
    /\ r.created_at = created
    /\ r.updated_at = now
    /\ \A f \in InputFields : RecipeDump(r)[f] = PayloadValue(b, f)

\* C7 as stated: a replace of an id that is in the store stores the payload under
\* the prior id and created_at, and a replace of an id that is not in the store
\* answers 404.
ReplaceAbsentIsNotFound ==
    [][last'.op = "update" => \A i \in DOMAIN CreateBodies :
        LET b == CreateBodies[i]
            rid == last'.rid
        IN
        (/\ rid >= 1
         /\ RecipeCreateValid(b)
         /\ update_recipe(rid, b))
        => IF DictHas(db, rid)
           THEN /\ last'.status = 200
                /\ DictHas(db', rid)
                /\ IsReplacement(DictGet(db', rid), rid, b,
                                 DictGet(db, rid).created_at, clock')
                /\ OthersUnchanged(db, db', rid)
           ELSE last'.status = 404]_vars
\* C7: a replace of an id that is in the store stores a record with the prior id
\* and created_at, the payload's value (or the default) in every input field and
\* updated_at = now, and changes no other record; a replace of an id that is not
\* in the store once the handler has seeded it answers 404 and changes nothing
\* else; on an empty store the id the seeding step issues is found and replaced.
ReplaceStoresPayload ==
    [][last'.op = "update" => \A i \in DOMAIN CreateBodies :
        LET b == CreateBodies[i]
            rid == last'.rid
        IN
        (/\ rid >= 1
         /\ RecipeCreateValid(b)
         /\ update_recipe(rid, b))
        => /\ DictHas(db, rid) =>
                /\ last'.status = 200
                /\ DictHas(db', rid)
                /\ IsReplacement(DictGet(db', rid), rid, b,
                                 DictGet(db, rid).created_at, clock')
                /\ last'.body = <<DictGet(db', rid)>>
                /\ OthersUnchanged(db, db', rid)
           /\ (~DictHas(db, rid) /\ db # <<>>) =>
                /\ last'.status = 404
                /\ db' = db
           /\ db = <<>> =>
                /\ Len(db') = 1
                /\ IF rid = issued'[Len(issued')]
                   THEN /\ last'.status = 200
                        /\ IsReplacement(db'[1], rid, b, db'[1].created_at, clock')
                   ELSE /\ last'.status = 404
                        /\ IsClassicPancakes(db'[1])
           /\ last'.status = 404 <=> ~DictHas(db', rid)]_vars
ReplaceStoresPayloadWitness ==
    /\ last.op = "update"
    /\ last.status = 200
    /\ Len(db) = 2
    /\ \E i \in 1..Len(db) :
          /\ db[i].id = last.rid
          /\ db[i].title = "X"
          /\ db[i].description = <<>>
          /\ db[i].created_at < db[i].updated_at

\* C8: with a clock that never goes backwards, every stored recipe has
\* created_at <= updated_at; create_recipe stores created_at = updated_at; and no
\* step changes the created_at or lowers the updated_at of a record it keeps.
TimestampsOrdered ==
    /\ [](\A i \in 1..Len(db) : db[i].created_at <= db[i].updated_at)
    /\ [][/\ clock' >= clock
          /\ (last'.op = "create" /\ last'.status = 201) =>
                /\ Len(last'.body) = 1
                /\ last'.body[1].created_at = last'.body[1].updated_at
                /\ DictHas(db', last'.body[1].id)
                /\ DictGet(db', last'.body[1].id) = last'.body[1]
                /\ ~DictHas(db, last'.body[1].id)
          /\ \A k \in Keys(db) \cap Keys(db') :
                /\ DictGet(db', k).created_at = DictGet(db, k).created_at
                /\ DictGet(db', k).updated_at >= DictGet(db, k).updated_at]_vars
TimestampsOrderedWitness ==
    /\ last.op \in {"update", "patch"}
    /\ last.status = 200
    /\ \E i \in 1..Len(db) :
          /\ db[i].id = last.rid
          /\ db[i].created_at < db[i].updated_at
          /\ db[i].updated_at = clock

\* C9: on a fresh process (empty store, counter 0) list_recipes answers exactly
\* one record, Classic Pancakes with id 1; health_check neither seeds the store
\* nor advances the counter.
FreshListIsTheSample ==
    [][/\ (db = <<>> /\ id_counter = 0 /\ last'.op = "list") =>
            /\ last'.status = 200
            /\ Len(last'.body) = 1
            /\ last'.body[1].id = 1
            /\ IsClassicPancakes(last'.body[1])
            /\ db' = last'.body
            /\ id_counter' = 1
       /\ last'.op = "health" =>
            /\ last'.status = 200
            /\ db' = db
            /\ id_counter' = id_counter
            /\ issued' = issued]_vars
FreshListIsTheSampleWitness ==
    /\ last.op = "list"
    /\ issued = <<1>>
    /\ deleted = {}
    /\ Len(db) = 1
    /\ db[1].id = 1
    /\ IsClassicPancakes(db[1])

\* C10: with two requests served concurrently, no two calls of _next_id return
\* the same value, no create inserts under an id another create inserted under,
\* and the store is seeded with the sample at most once.
ConcurrentRequestsSafe ==
    /\ \A i, j \in 1..Len(issued) : i # j => issued[i] # issued[j]
    /\ \A i, j \in 1..Len(writes) :
          (i # j /\ writes[i].by = "create" /\ writes[j].by = "create")
          => writes[i].id # writes[j].id
    /\ Cardinality({i \in 1..Len(writes) : writes[i].by = "seed"}) <= 1

====
